---------------------------- MODULE Spec2Model ----------------------------
(***************************************************************************)
(* The upload pipeline of src/app/page.tsx: handleUnifiedUpload starts one *)
(* async task per selected file, a video task asks the server for a        *)
(* resumable session URL and resumableUpload PUTs the file chunk by chunk  *)
(* through uploadChunk, retrying a failed chunk once.                      *)
(*                                                                         *)
(* JavaScript runs one continuation at a time, so a step of the model is   *)
(* what runs between two awaits of one task.  React applies the functional *)
(* updates (prev => ...) in the order of the calls; the model applies each *)
(* one when it is called.  Strings are sequences of tokens; the tokens of  *)
(* a file name and of an index are single characters.                      *)
(***************************************************************************)
EXTENDS Integers, Sequences, FiniteSets, TLC

(* ------------------------------ bounds -------------------------------- *)

\* Files selected over a whole behaviour (in one selection or several).
MaxSelected == 2

\* Chunks of the largest video that passes the size check.
MaxChunks == 2

(* ------------------------- program constants -------------------------- *)

chunkSize == 256 * 1024

maxSize == 500 * 1024 * 1024

(* ------------------------------ strings ------------------------------- *)

\* String.prototype.includes: needle occurs as a contiguous run of s.
Includes(s, needle) ==
    \E k \in 0..(Len(s) - Len(needle)) :
        \A j \in 1..Len(needle) : s[k + j] = needle[j]

\* error.message?.includes(needle): undefined (falsy) when there is no message.
MessageIncludes(e, needle) == e.hasMessage /\ Includes(e.message, needle)

\* new Error(message)
Err(message) == [hasMessage |-> TRUE, message |-> message]

\* The Event that img.onerror passes to reject: it has no message property.
ErrorEvent == [hasMessage |-> FALSE, message |-> <<>>]

\* `${error.message}` of a caught value.
MessageText(e) == IF e.hasMessage THEN e.message ELSE <<"undefined">>

\* The value of thrown before anything was caught.
NoValue == [hasMessage |-> FALSE, message |-> <<"nothing", "caught">>]

\* error === null
NoError == <<>>

NoUrl == <<>>

(* ------------------------------- inputs ------------------------------- *)

FileNames == { <<"a">>, <<"a", "-", "1">> }

\* Sizes of the selectable videos: empty, one short chunk, whole chunks, whole
\* chunks plus one byte, and one byte over the limit.
VideoSizes ==
    {0, 1, MaxChunks * chunkSize, maxSize + 1}
        \cup { k * chunkSize : k \in 1..(MaxChunks - 1) }
        \cup { k * chunkSize + 1 : k \in 1..(MaxChunks - 1) }

\* The size of a file that is no video is never read.
Candidates ==
    [name : FileNames, type : {<<"video", "/", "mp4">>}, size : VideoSizes]
        \cup [name : FileNames,
              type : {<<"image", "/", "png">>, <<"text", "/", "plain">>},
              size : {1}]

Selections == UNION { [1..n -> Candidates] : n \in 0..MaxSelected }

\* The session URL the server hands to the n-th request of a selection: the
\* drive API opens a new session, with a URL of its own, for every request.
SessionUrl(n) == <<"session", ToString(n)>>

UploadUrls == { SessionUrl(n) : n \in 1..MaxSelected }

\* Messages the routes put in the error field of a failure; the last three
\* stand for `Server error: ${err.message}` with a message of the drive API.
ServerErrors ==
    { <<"Missing", "Google", "credentials", "or", "folder", "ID">>,
      <<"Server", "error", ":", "blocked", "by", "CORS", "policy">>,
      <<"Server", "error", ":", "no", "Access-Control-Allow-Origin", "header">>,
      <<"Server", "error", ":", "Chunk", "rejected">> }

\* What a failed request's body can hold: a JSON object with an error field,
\* a JSON object without one, or something that is no JSON.
FailureBodies ==
    [kind : {"json"}, hasError : {TRUE}, error : ServerErrors]
        \cup { [kind |-> "json", hasError |-> FALSE, error |-> <<>>],
               [kind |-> "text", hasError |-> FALSE, error |-> <<>>] }

StatusText(status) ==
    IF status = 413 THEN <<"Payload", "Too", "Large">>
    ELSE <<"Internal", "Server", "Error">>

\* The responses of fetch that are not ok (status outside 200..299).
FailureResponses == [status : {413, 500}, body : FailureBodies]

\* What fetch rejects with when the request cannot be made.
FetchError == Err(<<"Failed", "to", "fetch">>)

\* The status of an XMLHttpRequest whose load event fires.
XhrStatuses == 100..599

\* The one event that ends an XMLHttpRequest that nothing aborts.
XhrEvents ==
    [type : {"load"}, status : XhrStatuses]
        \cup { [type |-> "error", status |-> 0],
               [type |-> "timeout", status |-> 0] }

(* ------------------------------- state -------------------------------- *)

VARIABLES
    files,           \* event.target.files of the running handleUnifiedUpload
    hpc,             \* handleUnifiedUpload: "idle", "forEach" or "awaitAll"
    allUploads,      \* how `await Promise.all(uploadTasks)` last ended
    selected,        \* files selected so far
    task,            \* the started tasks of the selection, in forEach order
    uploadProgress,  \* useState {[key: string]: number}
    uploadingFiles,  \* useState string[]
    error,           \* useState string | null
    xhr,             \* a single uploadChunk call: its XMLHttpRequest
    promise,         \* a single uploadChunk call: the promise it returns
    urlRoute,        \* a single POST of the video-url route
    videoRoute       \* a single POST of the video route

vars == <<files, hpc, allUploads, selected, task, uploadProgress,
          uploadingFiles, error, xhr, promise, urlRoute, videoRoute>>

pageVars == <<files, hpc, allUploads, selected, task, uploadProgress,
              uploadingFiles, error>>

xhrVars == <<xhr, promise>>

routeVars == <<urlRoute, videoRoute>>

(* ------------------------ resumableUpload: sums ------------------------ *)

\* Math.ceil(file.size / chunkSize)
totalChunks(size) == (size + chunkSize - 1) \div chunkSize

\* const start = chunkIndex * chunkSize
ChunkStart(chunkIndex) == chunkIndex * chunkSize

Min(a, b) == IF a <= b THEN a ELSE b

\* ChunkEnd without the Math.min.
ChunkEndUnclamped(chunkIndex, size) == ChunkStart(chunkIndex) + chunkSize

\* const end = Math.min(start + chunkSize, file.size): one past the last byte
ChunkEnd(chunkIndex, size) == Min(ChunkStart(chunkIndex) + chunkSize, size)

\* Math.round(n / d) for n >= 0, d > 0: halves round up.
Round(n, d) == (2 * n + d) \div (2 * d)

\* progressPercent with Math.floor for Math.round.
progressPercentFloor(end, size) == 10 + (end * 85) \div size

\* 10 + Math.round((end / file.size) * 85)
progressPercent(end, size) == 10 + Round(end * 85, size)

\* The Content-Range header `bytes ${start}-${end}/${totalSize}`.
ContentRange(start, end, totalSize) ==
    [unit |-> "bytes", first |-> start, last |-> end, size |-> totalSize]

\* UploadChunkResult without the 308 branch.
UploadChunkResultNo308(ev) ==
    ev.type = "load" /\ ev.status >= 200 /\ ev.status < 300

\* What uploadChunk's promise is resolved with when the request ends in ev.
UploadChunkResult(ev) ==
    IF ev.type = "load"
    THEN IF ev.status = 308 THEN TRUE
         ELSE IF ev.status >= 200 /\ ev.status < 300 THEN TRUE
         ELSE FALSE
    ELSE FALSE

\* The request uploadChunk sends for chunk chunkIndex of a file of this size:
\* uploadChunk(chunk, start, end - 1, file.size, uploadUrl, ...).
ChunkPut(chunkIndex, size, uploadUrl) ==
    [index  |-> chunkIndex,
     method |-> "PUT",
     url    |-> uploadUrl,
     range  |-> ContentRange(ChunkStart(chunkIndex),
                             ChunkEnd(chunkIndex, size) - 1, size),
     bytes  |-> ChunkEnd(chunkIndex, size) - ChunkStart(chunkIndex),
     result |-> "pending"]

\* `Failed to upload chunk ${chunkIndex + 1}/${totalChunks} after retry`
ChunkFailure(chunkIndex, size) ==
    Err(<<"Failed", "to", "upload", "chunk", ToString(chunkIndex + 1), "/",
          ToString(totalChunks(size)), "after", "retry">>)

(* ---------------------- handleUnifiedUpload: sums ---------------------- *)

\* FileId without the index.
FileIdNameOnly(name, index) == name

\* `${file.name}-${index}`, index counted from 0
FileId(name, index) == name \o <<"-", ToString(index)>>

\* file.type.startsWith(prefix)
StartsWith(s, prefix) ==
    Len(s) >= Len(prefix) /\ \A j \in 1..Len(prefix) : s[j] = prefix[j]

IsImage(file) == StartsWith(file.type, <<"image", "/">>)

IsVideo(file) == StartsWith(file.type, <<"video", "/">>)

\* TooLarge for a task without the size check.
NeverTooLarge(file) == FALSE

TooLarge(file) == file.size > maxSize

VideoTooLarge == Err(<<"Video", "file", "must", "be", "less", "than", "500MB">>)

\* The error of a failed photo request: the body's error field, 'Image upload
\* failed' without one, `Upload failed: ${status} ${statusText}` when the body
\* is no JSON.
PhotoFailure(response) ==
    IF response.body.kind = "json"
    THEN IF response.body.hasError THEN Err(response.body.error)
         ELSE Err(<<"Image", "upload", "failed">>)
    ELSE Err(<<"Upload", "failed", ":", ToString(response.status)>>
                 \o StatusText(response.status))

\* The error of a failed upload-URL request: urlResponse.json().catch(() => ({}))
\* and then errorData.error || 'Failed to get upload URL'.
UrlFailure(response) ==
    IF response.body.kind = "json" /\ response.body.hasError
    THEN Err(response.body.error)
    ELSE Err(<<"Failed", "to", "get", "upload", "URL">>)

isCorsError(e) ==
    \/ MessageIncludes(e, <<"CORS">>)
    \/ MessageIncludes(e, <<"Access-Control-Allow-Origin">>)

\* isChunkError looking for 'Chunk' alone.
isChunkErrorCapital(e) == MessageIncludes(e, <<"Chunk">>)

isChunkError(e) ==
    \/ MessageIncludes(e, <<"Chunk">>)
    \/ MessageIncludes(e, <<"chunk">>)

\* The branch of the catch block that shows nothing.
Hidden(e) == isCorsError(e) \/ isChunkError(e)

\* `Failed to upload ${file.name}: ${error.message}`
ShownError(name, e) ==
    <<"Failed", "to", "upload">> \o name \o <<":">> \o MessageText(e)

\* CatchRethrows for a catch block that throws the errors it shows.
CatchRethrowsShown(e) == ~Hidden(e)

\* Whether the catch block lets the caught value escape the task.
CatchRethrows(e) == FALSE

\* setUploadProgress(prev => ({ ...prev, [fileId]: value }))
SetProgress(prev, fileId, value) ==
    [k \in DOMAIN prev \cup {fileId} |-> IF k = fileId THEN value ELSE prev[k]]

\* prev => [...prev, fileId]
AddUploading(prev, fileId) == Append(prev, fileId)

\* RemoveUploading for a filter that keeps everything.
KeepUploading(prev, fileId) == prev

\* prev => prev.filter(id => id !== fileId)
RemoveUploading(prev, fileId) == SelectSeq(prev, LAMBDA id : id # fileId)

\* Promise.all over the started tasks' promises.
PromiseAll(tasks) ==
    IF \E i \in DOMAIN tasks : tasks[i].settled = "rejected" THEN "rejected"
    ELSE IF \A i \in DOMAIN tasks : tasks[i].settled = "fulfilled"
         THEN "completed"
         ELSE "pending"

(* -------------------------- the task records -------------------------- *)

\* A task at the top of its async function.
NewTask ==
    [pc         |-> "start",    \* the await the task is stopped at, or "done"
     outcome    |-> "running",  \* "uploaded", "skipped", "shown" or "hidden"
     settled    |-> "pending",  \* the task's promise
     thrown     |-> NoValue,    \* the value the catch block received
     requests   |-> <<>>,       \* the paths the task called fetch with
     uploadUrl  |-> NoUrl,
     chunkIndex |-> 0,
     puts       |-> <<>>,       \* the chunk requests sent, oldest first
     writes     |-> <<>>]       \* the values the task set its progress to

\* RetryAllowed retrying every failed attempt.
RetryAlways(pc) == TRUE

\* Whether a failed attempt is followed by the retry: only the first one is.
RetryAllowed(pc) == pc = "put"

\* Proceeds ignoring what uploadChunk resolved with.
ProceedsAnyway(success) == TRUE

\* Whether the loop goes on to the progress update after an attempt.
Proceeds(success) == success

\* The catch block of a task: what it leaves in error and uploadProgress.
CatchBlock(name, fileId, e, err, progress) ==
    IF Hidden(e)
    THEN [error |-> err, uploadProgress |-> progress, wrote |-> <<>>]
    ELSE [error |-> ShownError(name, e),
          uploadProgress |-> SetProgress(progress, fileId, 0),
          wrote |-> <<0>>]

\* The task record once the catch and finally blocks have run.
Failed(t, e, c) ==
    [t EXCEPT !.pc = "done",
              !.outcome = IF Hidden(e) THEN "hidden" ELSE "shown",
              !.settled = IF CatchRethrows(e) THEN "rejected" ELSE "fulfilled",
              !.thrown = e,
              !.writes = @ \o c.wrote]

\* The task record once the try block has ended and the finally block has run.
Returned(t, outcome) ==
    [t EXCEPT !.pc = "done", !.outcome = outcome, !.settled = "fulfilled"]

PhotoPath == <<"/api/upload/photo">>

VideoUrlPath == <<"/api/upload/video-url">>

FileIdOf(i) == FileId(files[i].name, i - 1)

(* ------------------------------ actions ------------------------------- *)

PageInit ==
    /\ files = <<>>
    /\ hpc = "idle"
    /\ allUploads = "none"
    /\ selected = 0
    /\ task = <<>>
    /\ uploadProgress = <<>>
    /\ uploadingFiles = <<>>
    /\ error = NoError

\* The change event of the file input, which is disabled while uploadingFiles
\* is not empty: handleUnifiedUpload up to its forEach.
HandleUnifiedUpload(selection) ==
    /\ hpc = "idle"
    /\ uploadingFiles = <<>>
    /\ selected + Len(selection) <= MaxSelected
    /\ UNCHANGED <<xhrVars, routeVars>>
    /\ IF Len(selection) = 0
       THEN UNCHANGED pageVars
       ELSE /\ files' = selection
            /\ hpc' = "forEach"
            /\ allUploads' = "pending"
            /\ selected' = selected + Len(selection)
            /\ task' = <<>>
            /\ error' = NoError
            /\ UNCHANGED <<uploadProgress, uploadingFiles>>

\* The task thrown into its catch block with e, then its finally block.
Throw(i, t, e, progress, uploading) ==
    LET c == CatchBlock(files[i].name, FileIdOf(i), e, error, progress)
    IN  /\ error' = c.error
        /\ uploadProgress' = c.uploadProgress
        /\ uploadingFiles' = RemoveUploading(uploading, FileIdOf(i))
        /\ task' = [j \in DOMAIN task \cup {i} |->
                        IF j = i THEN Failed(t, e, c) ELSE task[j]]

\* The task leaving its try block normally, then its finally block.
Return(i, t, outcome, progress, uploading) ==
    /\ uploadProgress' = progress
    /\ uploadingFiles' = RemoveUploading(uploading, FileIdOf(i))
    /\ task' = [j \in DOMAIN task \cup {i} |->
                    IF j = i THEN Returned(t, outcome) ELSE task[j]]
    /\ UNCHANGED error

\* The task stopping at an await.
Await(i, t, progress, uploading) ==
    /\ uploadProgress' = progress
    /\ uploadingFiles' = uploading
    /\ task' = [j \in DOMAIN task \cup {i} |-> IF j = i THEN t ELSE task[j]]
    /\ UNCHANGED error

\* One round of forEach: the next file's task runs up to its first await.
StartTask ==
    LET i  == Len(task) + 1
        f  == files[i]
        id == FileIdOf(i)
        uploading == AddUploading(uploadingFiles, id)
        p0 == SetProgress(uploadProgress, id, 0)
        t0 == [NewTask EXCEPT !.writes = <<0>>]
    IN  /\ hpc = "forEach"
        /\ hpc' = IF i = Len(files) THEN "awaitAll" ELSE "forEach"
        /\ UNCHANGED <<files, allUploads, selected>>
        /\ UNCHANGED <<xhrVars, routeVars>>
        /\ IF IsImage(f)
           THEN Await(i, [t0 EXCEPT !.pc = "compress", !.writes = <<0, 10>>],
                      SetProgress(p0, id, 10), uploading)
           ELSE IF IsVideo(f)
           THEN IF TooLarge(f)
                THEN Throw(i, t0, VideoTooLarge, p0, uploading)
                ELSE Await(i, [t0 EXCEPT !.pc = "urlFetch", !.writes = <<0, 5>>,
                                         !.requests = <<VideoUrlPath>>],
                           SetProgress(p0, id, 5), uploading)
           ELSE Return(i, t0, "skipped", p0, uploading)

\* A continuation of task i runs: the forEach has ended, the task waits at pc.
Resumes(i, pc) ==
    /\ hpc # "forEach"
    /\ i \in DOMAIN task
    /\ task[i].pc = pc
    /\ UNCHANGED <<files, hpc, allUploads, selected>>
    /\ UNCHANGED <<xhrVars, routeVars>>

\* compressImage resolves: progress 30 and the photo request is made.
CompressResolved(i) ==
    /\ Resumes(i, "compress")
    /\ Await(i, [task[i] EXCEPT !.pc = "photoFetch", !.writes = Append(@, 30),
                             !.requests = Append(@, PhotoPath)],
             SetProgress(uploadProgress, FileIdOf(i), 30), uploadingFiles)

\* img.onerror: compressImage rejects with the event.
CompressRejected(i) ==
    /\ Resumes(i, "compress")
    /\ Throw(i, task[i], ErrorEvent, uploadProgress, uploadingFiles)

\* The photo request is answered with status 200.
PhotoUploaded(i) ==
    /\ Resumes(i, "photoFetch")
    /\ Return(i, [task[i] EXCEPT !.writes = Append(@, 100)], "uploaded",
              SetProgress(uploadProgress, FileIdOf(i), 100), uploadingFiles)

\* The photo request is answered with a failure, or cannot be made.
PhotoFailed(i) ==
    /\ Resumes(i, "photoFetch")
    /\ \E e \in {PhotoFailure(r) : r \in FailureResponses} \cup {FetchError} :
          Throw(i, task[i], e, uploadProgress, uploadingFiles)

\* resumableUpload at the test of its for loop: the next chunk is sent, or the
\* loop has ended, resumableUpload returns and the task sets 100 and ends.
LoopTest(i, t, progress) ==
    IF t.chunkIndex < totalChunks(files[i].size)
    THEN Await(i, [t EXCEPT !.pc = "put",
                            !.puts = Append(@, ChunkPut(t.chunkIndex,
                                                        files[i].size,
                                                        t.uploadUrl))],
               progress, uploadingFiles)
    ELSE Return(i, [t EXCEPT !.writes = Append(@, 100)], "uploaded",
                SetProgress(progress, FileIdOf(i), 100), uploadingFiles)

\* The upload-URL request is answered with status 200 and a session URL:
\* progress 10 and resumableUpload begins.
UrlReceived(i, uploadUrl) ==
    /\ Resumes(i, "urlFetch")
    /\ uploadUrl = SessionUrl(i)
    /\ LoopTest(i, [task[i] EXCEPT !.uploadUrl = uploadUrl,
                                   !.chunkIndex = 0,
                                   !.writes = Append(@, 10)],
                SetProgress(uploadProgress, FileIdOf(i), 10))

\* The upload-URL request is answered with a failure, or cannot be made.
UrlFailed(i) ==
    /\ Resumes(i, "urlFetch")
    /\ \E e \in {UrlFailure(r) : r \in FailureResponses} \cup {FetchError} :
          Throw(i, task[i], e, uploadProgress, uploadingFiles)

\* What the requests of uploadChunk can resolve its promise with.
ChunkResults == { UploadChunkResult(ev) : ev \in XhrEvents }

\* The request of the chunk in flight ends and uploadChunk resolves with
\* success: the loop goes on, the chunk is sent again, or the upload fails.
ChunkResolved(i, success) ==
    LET t    == task[i]
        f    == files[i]
        n    == Len(t.puts)
        done == [t EXCEPT !.puts[n].result =
                              IF success THEN "true" ELSE "false"]
        pct  == progressPercent(ChunkEnd(t.chunkIndex, f.size), f.size)
    IN  /\ \/ Resumes(i, "put")
           \/ Resumes(i, "retry")
        /\ IF Proceeds(success)
           THEN LoopTest(i, [done EXCEPT !.chunkIndex = @ + 1,
                                         !.writes = Append(@, pct)],
                         SetProgress(uploadProgress, FileIdOf(i), pct))
           ELSE IF RetryAllowed(t.pc)
           THEN Await(i, [done EXCEPT !.pc = "retry",
                                      !.puts = Append(@, ChunkPut(t.chunkIndex,
                                                                  f.size,
                                                                  t.uploadUrl))],
                      uploadProgress, uploadingFiles)
           ELSE Throw(i, done, ChunkFailure(t.chunkIndex, f.size),
                      uploadProgress, uploadingFiles)

\* `await Promise.all(uploadTasks)` ends and so does handleUnifiedUpload.
AllSettled ==
    /\ hpc = "awaitAll"
    /\ PromiseAll(task) # "pending"
    /\ hpc' = "idle"
    /\ allUploads' = PromiseAll(task)
    /\ UNCHANGED <<files, selected, task, uploadProgress, uploadingFiles, error>>
    /\ UNCHANGED <<xhrVars, routeVars>>

(* -------------------- one uploadChunk call, alone --------------------- *)

\* The promise, and the XMLHttpRequest before uploadChunk is called.
XhrIdle ==
    /\ xhr = [state |-> "unsent", method |-> "", url |-> NoUrl,
              range |-> ContentRange(0, 0, 0), timeout |-> 0,
              event |-> [type |-> "none", status |-> 0]]
    /\ promise = [state |-> "pending", value |-> FALSE, calls |-> 0]

\* resolve(value): only the first call settles the promise.
Resolve(p, value) ==
    IF p.state = "pending"
    THEN [state |-> "fulfilled", value |-> value, calls |-> p.calls + 1]
    ELSE [p EXCEPT !.calls = @ + 1]

\* uploadChunk(chunk, start, end, totalSize, uploadUrl, ...): the executor
\* sets the timeout and the listeners, opens the request and sends it.
UploadChunk(put) ==
    /\ xhr.state = "unsent"
    /\ xhr' = [xhr EXCEPT !.state = "sent", !.method = put.method,
                          !.url = put.url, !.range = put.range,
                          !.timeout = 30000]
    /\ UNCHANGED promise
    /\ UNCHANGED <<pageVars, routeVars>>

\* The request ends with the event ev and the listener of ev.type runs.
XhrEnds(ev) ==
    /\ xhr.state = "sent"
    /\ xhr' = [xhr EXCEPT !.state = "done", !.event = ev]
    /\ promise' = Resolve(promise, UploadChunkResult(ev))
    /\ UNCHANGED <<pageVars, routeVars>>

XhrLoad == \E status \in XhrStatuses : XhrEnds([type |-> "load", status |-> status])

XhrError == XhrEnds([type |-> "error", status |-> 0])

XhrTimeout == XhrEnds([type |-> "timeout", status |-> 0])

\* The chunk requests of the videos that pass the size check.
ChunkPuts ==
    { ChunkPut(k, size, url) :
        k \in 0..(MaxChunks - 1),
        size \in {s \in VideoSizes : s <= maxSize},
        url \in UploadUrls }

(* ------------------- the video-url route: one POST -------------------- *)

\* What req.json() can give: a rejection, null, or an object whose filename
\* and mimeType are strings (an empty one is as good as none) and whose
\* fileSize is a number, with hasFileSize false when there is none.
UrlBodies ==
    { [kind |-> "unparsable", filename |-> <<>>, mimeType |-> <<>>,
       hasFileSize |-> FALSE, fileSize |-> 0],
      [kind |-> "null", filename |-> <<>>, mimeType |-> <<>>,
       hasFileSize |-> FALSE, fileSize |-> 0] }
        \cup [kind : {"object"},
              filename : {<<>>, <<"a", ".", "mp4">>},
              mimeType : {<<>>, <<"video", "/", "mp4">>},
              hasFileSize : {TRUE},
              fileSize : {0, 1, chunkSize + 1}]
        \cup [kind : {"object"},
              filename : {<<>>, <<"a", ".", "mp4">>},
              mimeType : {<<>>, <<"video", "/", "mp4">>},
              hasFileSize : {FALSE},
              fileSize : {0}]

\* process.env: whether GOOGLE_PRIVATE_KEY, GOOGLE_CLIENT_EMAIL and
\* GOOGLE_DRIVE_FOLDER_ID are set.
Environments == [privateKey : BOOLEAN, clientEmail : BOOLEAN, folderId : BOOLEAN]

\* What the auth library or fetch can throw.
ThrownErrors ==
    { [code |-> "ENOTFOUND", hasMessage |-> TRUE,
       message |-> <<"getaddrinfo", "ENOTFOUND">>],
      [code |-> "", hasMessage |-> TRUE,
       message |-> <<"network", "timeout", "at", "token">>],
      [code |-> "", hasMessage |-> TRUE, message |-> <<"invalid_grant">>],
      [code |-> "", hasMessage |-> FALSE, message |-> <<>>] }

\* The TypeError of `const { filename, mimeType, fileSize } = body` for null.
DestructureError ==
    [code |-> "", hasMessage |-> TRUE,
     message |-> <<"Cannot", "destructure", "property", "filename">>]

\* What the drive API answers the session request with.
DriveResponses == [status : {200, 401, 403, 404, 500}, location : BOOLEAN]

NoResponse == [status |-> 0, error |-> <<>>, uploadUrl |-> NoUrl]

\* NextResponse.json({ error }, { status })
ErrorResponse(status, message) ==
    [status |-> status, error |-> message, uploadUrl |-> NoUrl]

\* The route before a request.
UrlRouteIdle ==
    urlRoute = [pc       |-> "idle",
                body     |-> CHOOSE b \in UrlBodies : b.kind = "unparsable",
                env      |-> [privateKey |-> FALSE, clientEmail |-> FALSE,
                              folderId |-> FALSE],
                outgoing |-> <<>>,     \* the requests made, oldest first
                token    |-> "none",   \* "none", "missing" or "given"
                drive    |-> [status |-> 0, location |-> FALSE],
                caught   |-> FALSE,    \* the outer catch block has run
                response |-> NoResponse]

\* The handler returns response.
UrlRouteReturns(r, response) ==
    urlRoute' = [r EXCEPT !.pc = "done", !.response = response]

\* The outer catch block: the message for err and status 500.
UrlRouteCatch(r, err) ==
    UrlRouteReturns([r EXCEPT !.caught = TRUE],
        ErrorResponse(500,
            IF err.code = "ENOTFOUND"
            THEN <<"Network", "error", "-", "unable", "to", "reach", "Google",
                   "Drive", "API">>
            ELSE IF MessageIncludes(err, <<"timeout">>)
            THEN <<"Request", "timeout", "-", "Google", "Drive", "API", "is",
                   "slow", "to", "respond">>
            ELSE IF err.hasMessage
            THEN <<"Server", "error", ":">> \o err.message
            ELSE <<"Unexpected", "server", "error">>))

\* !filename || !mimeType
MissingFields(body) == body.filename = <<>> \/ body.mimeType = <<>>

\* !privateKey || !clientEmail || !folderId
MissingEnv(env) == ~env.privateKey \/ ~env.clientEmail \/ ~env.folderId

\* if (fileSize): the header X-Upload-Content-Length is set.
SendsLength(body) == body.hasFileSize /\ body.fileSize # 0

\* The headers of the session request.
SessionHeaders(body) ==
    {"Authorization", "Content-Type", "X-Upload-Content-Type"}
        \cup (IF SendsLength(body) THEN {"X-Upload-Content-Length"} ELSE {})

\* The message of a session request that is not ok.
InitiateFailure(status) ==
    IF status = 401
    THEN <<"Authentication", "failed", "-", "check", "Google", "credentials">>
    ELSE IF status = 403
    THEN <<"Permission", "denied", "-", "check", "Google", "Drive", "folder",
           "permissions">>
    ELSE IF status = 404
    THEN <<"Google", "Drive", "folder", "not", "found", "-", "check", "folder",
           "ID">>
    ELSE <<"Failed", "to", "initiate", "upload", ":", ToString(status)>>
             \o StatusText(status)

\* POST up to `await auth.getClient()`: the body is parsed and the fields and
\* the environment are checked.
UrlPost(body, env) ==
    LET r == [urlRoute EXCEPT !.body = body, !.env = env]
    IN  /\ urlRoute.pc = "idle"
        /\ IF body.kind = "unparsable"
           THEN UrlRouteReturns(r, ErrorResponse(400,
                    <<"Invalid", "JSON", "in", "request", "body">>))
           ELSE IF body.kind = "null"
           THEN UrlRouteCatch(r, DestructureError)
           ELSE IF MissingFields(body)
           THEN UrlRouteReturns(r, ErrorResponse(400,
                    <<"Missing", "required", "fields", ":", "filename", "and",
                      "mimeType", "are", "required">>))
           ELSE IF MissingEnv(env)
           THEN UrlRouteReturns(r, ErrorResponse(500,
                    <<"Missing", "Google", "credentials", "or", "folder", "ID">>))
           ELSE urlRoute' = [r EXCEPT !.pc = "getClient"]
        /\ UNCHANGED <<pageVars, xhrVars, videoRoute>>

\* auth.getClient() resolves and the access token is asked for.
UrlClientReady ==
    /\ urlRoute.pc = "getClient"
    /\ urlRoute' = [urlRoute EXCEPT !.pc = "getAccessToken",
                                    !.outgoing = Append(@, [to |-> "token",
                                                            headers |-> {}])]
    /\ UNCHANGED <<pageVars, xhrVars, videoRoute>>

\* getAccessToken() resolves, with a token or without: the session request is
\* made, or the route answers 500.
UrlTokenReceived(given) ==
    /\ urlRoute.pc = "getAccessToken"
    /\ IF given
       THEN urlRoute' =
                [urlRoute EXCEPT !.pc = "fetch", !.token = "given",
                                 !.outgoing = Append(@,
                                     [to |-> "drive",
                                      headers |-> SessionHeaders(urlRoute.body)])]
       ELSE UrlRouteReturns([urlRoute EXCEPT !.token = "missing"],
                ErrorResponse(500, <<"Failed", "to", "get", "access", "token">>))
    /\ UNCHANGED <<pageVars, xhrVars, videoRoute>>

\* The session request is answered.
UrlDriveAnswered(answer) ==
    LET r == [urlRoute EXCEPT !.drive = answer]
    IN  /\ urlRoute.pc = "fetch"
        /\ IF ~(answer.status >= 200 /\ answer.status < 300)
           THEN UrlRouteReturns(r, ErrorResponse(500, InitiateFailure(answer.status)))
           ELSE IF ~answer.location
           THEN UrlRouteReturns(r, ErrorResponse(500,
                    <<"No", "upload", "URL", "returned", "from", "Google", "Drive">>))
           ELSE UrlRouteReturns(r, [status |-> 200, error |-> <<>>,
                                    uploadUrl |-> SessionUrl(1)])
        /\ UNCHANGED <<pageVars, xhrVars, videoRoute>>

\* getClient, getAccessToken or fetch rejects: the outer catch block runs.
UrlThrown(err) ==
    /\ urlRoute.pc \in {"getClient", "getAccessToken", "fetch"}
    /\ UrlRouteCatch(urlRoute, err)
    /\ UNCHANGED <<pageVars, xhrVars, videoRoute>>

(* --------------------- the video route: one POST ---------------------- *)

\* The File objects a form can carry in its video field.
VideoFiles ==
    [name : FileNames,
     type : {<<"video", "/", "mp4">>, <<"video", "/", "quicktime">>},
     size : {0, 1}]

NoFile == [name |-> <<>>, type |-> <<>>, size |-> 0]

\* What req.formData() can give: a rejection (the body is no form), a form
\* without a video field, one whose video field is a string, or one whose
\* video field is a file.
VideoForms ==
    { [kind |-> k, file |-> NoFile] : k \in {"rejects", "none", "string"} }
        \cup { [kind |-> "file", file |-> f] : f \in VideoFiles }

\* process.env: whether GOOGLE_PRIVATE_KEY and GOOGLE_CLIENT_EMAIL are set.
VideoEnvironments == [privateKey : BOOLEAN, clientEmail : BOOLEAN]

\* What drive.files.create can reject with; 0 stands for no statusCode or
\* no status.
CreateErrors ==
    { [hasMessage |-> TRUE, message |-> <<"Forbidden">>,
       statusCode |-> 0, status |-> 403],
      [hasMessage |-> TRUE, message |-> <<"File", "not", "found">>,
       statusCode |-> 404, status |-> 0],
      [hasMessage |-> TRUE, message |-> <<"socket", "hang", "up">>,
       statusCode |-> 0, status |-> 0],
      [hasMessage |-> FALSE, message |-> <<>>, statusCode |-> 0, status |-> 0] }

\* A TypeError or a file system error: a message and no status.
PlainError(message) ==
    [hasMessage |-> TRUE, message |-> message, statusCode |-> 0, status |-> 0]

\* The ids the drive gives a created file.
DriveFileIds == { <<"id", ToString(n)>> : n \in 1..2 }

\* path.join(os.tmpdir(), `upload-${Date.now()}-${file.name}`)
tempFilePath(file) == <<"tmp", "/", "upload", "-", "now", "-">> \o file.name

\* The route before a request.
VideoRouteIdle ==
    videoRoute = [pc       |-> "idle",
                  form     |-> [kind |-> "none", file |-> NoFile],
                  env      |-> [privateKey |-> FALSE, clientEmail |-> FALSE],
                  written  |-> FALSE,    \* writeFileSync has returned
                  tempFile |-> <<>>,     \* the path of the file while it exists
                  unlink   |-> "none",   \* "none", "done" or "failed"
                  caught   |-> FALSE,    \* the outer catch block has run
                  response |-> [status |-> 0, error |-> <<>>, fileId |-> <<>>]]

\* The handler returns response.
VideoRouteReturns(r, response) ==
    videoRoute' = [r EXCEPT !.pc = "done", !.response = response]

\* The outer catch block: error's message and its statusCode, status or 500.
\* It does not touch the temporary file.
VideoRouteCatch(r, err) ==
    VideoRouteReturns([r EXCEPT !.caught = TRUE],
        [status |-> IF err.statusCode # 0 THEN err.statusCode
                    ELSE IF err.status # 0 THEN err.status
                    ELSE 500,
         error  |-> IF err.hasMessage THEN err.message
                    ELSE <<"Unexpected", "server", "error">>,
         fileId |-> <<>>])

\* getDriveClient throws: !privateKey || !clientEmail
MissingCredentials(env) == ~env.privateKey \/ ~env.clientEmail

\* POST up to `await req.formData()`.
VideoPost(form, env) ==
    /\ videoRoute.pc = "idle"
    /\ videoRoute' = [videoRoute EXCEPT !.pc = "formData", !.form = form,
                                        !.env = env]
    /\ UNCHANGED <<pageVars, xhrVars, urlRoute>>

\* req.formData() settles: without a file the route answers; with one it
\* awaits file.arrayBuffer().
VideoFormData ==
    /\ videoRoute.pc = "formData"
    /\ IF videoRoute.form.kind = "rejects"
       THEN VideoRouteCatch(videoRoute,
                PlainError(<<"Failed", "to", "parse", "body", "as", "FormData">>))
       ELSE IF videoRoute.form.kind = "none"
       THEN VideoRouteReturns(videoRoute,
                [status |-> 400,
                 error  |-> <<"No", "valid", "video", "file", "uploaded">>,
                 fileId |-> <<>>])
       ELSE IF videoRoute.form.kind = "string"
       THEN VideoRouteCatch(videoRoute,
                PlainError(<<"file", ".", "arrayBuffer", "is", "not", "a",
                             "function">>))
       ELSE videoRoute' = [videoRoute EXCEPT !.pc = "arrayBuffer"]
    /\ UNCHANGED <<pageVars, xhrVars, urlRoute>>

\* file.arrayBuffer() resolves: the temporary file is written (or
\* writeFileSync throws), the drive client is made (or getDriveClient throws)
\* and drive.files.create is awaited.
VideoBuffered(writes) ==
    LET r == [videoRoute EXCEPT !.written = TRUE,
                                !.tempFile = tempFilePath(videoRoute.form.file)]
    IN  /\ videoRoute.pc = "arrayBuffer"
        /\ IF ~writes
           THEN VideoRouteCatch(videoRoute,
                    PlainError(<<"ENOSPC", "no", "space", "left", "on", "device">>))
           ELSE IF MissingCredentials(videoRoute.env)
           THEN VideoRouteCatch(r,
                    PlainError(<<"Missing", "Google", "credentials">>))
           ELSE videoRoute' = [r EXCEPT !.pc = "create"]
        /\ UNCHANGED <<pageVars, xhrVars, urlRoute>>

\* drive.files.create resolves: the temporary file is unlinked (a failure of
\* unlinkSync is only logged) and the file id is answered.
VideoCreated(id, unlinks) ==
    /\ videoRoute.pc = "create"
    /\ VideoRouteReturns(
           [videoRoute EXCEPT !.unlink = IF unlinks THEN "done" ELSE "failed",
                              !.tempFile = IF unlinks THEN <<>> ELSE @],
           [status |-> 200, error |-> <<>>, fileId |-> id])
    /\ UNCHANGED <<pageVars, xhrVars, urlRoute>>

\* drive.files.create rejects: the outer catch block runs.
VideoCreateFailed(err) ==
    /\ videoRoute.pc = "create"
    /\ VideoRouteCatch(videoRoute, err)
    /\ UNCHANGED <<pageVars, xhrVars, urlRoute>>

(* --------------------------- specifications --------------------------- *)

Init == PageInit /\ XhrIdle /\ UrlRouteIdle /\ VideoRouteIdle

Continue ==
    \/ StartTask
    \/ \E i \in 1..MaxSelected : CompressResolved(i)
    \/ \E i \in 1..MaxSelected : CompressRejected(i)
    \/ \E i \in 1..MaxSelected : PhotoUploaded(i)
    \/ \E i \in 1..MaxSelected : PhotoFailed(i)
    \/ \E i \in 1..MaxSelected, uploadUrl \in UploadUrls : UrlReceived(i, uploadUrl)
    \/ \E i \in 1..MaxSelected : UrlFailed(i)
    \/ \E i \in 1..MaxSelected, success \in ChunkResults : ChunkResolved(i, success)
    \/ AllSettled

Next ==
    \/ \E selection \in Selections : HandleUnifiedUpload(selection)
    \/ Continue

Spec == Init /\ [][Next]_vars

\* Every request and every compression ends, and the event loop runs every
\* continuation that is ready.
FairSpec == Spec /\ WF_vars(Continue)

XhrNext ==
    \/ \E put \in ChunkPuts : UploadChunk(put)
    \/ XhrLoad
    \/ XhrError
    \/ XhrTimeout

XhrSpec == Init /\ [][XhrNext]_vars

UrlRouteNext ==
    \/ \E body \in UrlBodies, env \in Environments : UrlPost(body, env)
    \/ UrlClientReady
    \/ \E given \in BOOLEAN : UrlTokenReceived(given)
    \/ \E answer \in DriveResponses : UrlDriveAnswered(answer)
    \/ \E err \in ThrownErrors : UrlThrown(err)

UrlRouteSpec == Init /\ [][UrlRouteNext]_vars

VideoRouteNext ==
    \/ \E form \in VideoForms, env \in VideoEnvironments : VideoPost(form, env)
    \/ VideoFormData
    \/ \E writes \in BOOLEAN : VideoBuffered(writes)
    \/ \E id \in DriveFileIds, unlinks \in BOOLEAN : VideoCreated(id, unlinks)
    \/ \E err \in CreateErrors : VideoCreateFailed(err)

VideoRouteSpec == Init /\ [][VideoRouteNext]_vars

(* ------------------------------- claims ------------------------------- *)

Videos == { i \in DOMAIN task : IsVideo(files[i]) }

\* The attempts of task i that resolved true, oldest first.
Succeeded(i) == SelectSeq(task[i].puts, LAMBDA p : p.result = "true")

\* ceil(size / 262144)
CeilChunks(size) ==
    IF size % 262144 = 0 THEN size \div 262144 ELSE size \div 262144 + 1

\* The Content-Range of chunk k of a file of this size, as C1 states it.
ClaimedRange(k, size) ==
    [unit  |-> "bytes",
     first |-> k * 262144,
     last  |-> (IF (k + 1) * 262144 <= size THEN (k + 1) * 262144 ELSE size) - 1,
     size  |-> size]

\* C1: every chunk request of a file of size S carries Content-Range
\* bytes i*262144 - min((i+1)*262144, S)-1 / S for its chunk i < ceil(S/262144);
\* and once resumableUpload has returned for a file of size S > 0, the chunks
\* that succeeded are exactly ceil(S/262144), start at byte 0, each starts where
\* the one before ended, the last ends at byte S-1, all but the last hold
\* 262144 bytes and the last holds at least one.
C1_ChunksCoverFile ==
    \A i \in Videos :
        LET S  == files[i].size
            ok == Succeeded(i)
        IN  /\ \A j \in DOMAIN task[i].puts :
                  LET p == task[i].puts[j]
                  IN  /\ p.index \in 0..(CeilChunks(S) - 1)
                      /\ p.range = ClaimedRange(p.index, S)
                      /\ p.bytes = p.range.last - p.range.first + 1
            /\ (task[i].outcome = "uploaded" /\ S > 0) =>
                  /\ Len(ok) = CeilChunks(S)
                  /\ ok[1].range.first = 0
                  /\ ok[Len(ok)].range.last = S - 1
                  /\ ok[Len(ok)].bytes >= 1
                  /\ \A j \in 1..(Len(ok) - 1) :
                        /\ ok[j].index = j - 1
                        /\ ok[j].bytes = 262144
                        /\ ok[j + 1].range.first = ok[j].range.last + 1

\* A video of 262145 bytes is uploaded: a whole chunk and a last chunk of one byte.
C1_Witness ==
    \E i \in Videos :
        /\ files[i].size = 262145
        /\ task[i].outcome = "uploaded"
        /\ Len(Succeeded(i)) = 2

\* C2: of one file at most one chunk request is in flight and it is the newest
\* one; the requests are sent in the order of the chunks; and a request of
\* chunk k+1 is sent only after a request of chunk k has resolved true.
C2_ChunksSequential ==
    \A i \in Videos :
        LET puts == task[i].puts
        IN  /\ \A j \in DOMAIN puts : puts[j].result = "pending" => j = Len(puts)
            /\ (puts # <<>> /\ puts[Len(puts)].result = "pending")
                  <=> task[i].pc \in {"put", "retry"}
            /\ \A j \in DOMAIN puts :
                  /\ j > 1 => puts[j].index >= puts[j - 1].index
                  /\ puts[j].index > 0 =>
                        \E h \in 1..(j - 1) :
                            /\ puts[h].index = puts[j].index - 1
                            /\ puts[h].result = "true"
                  /\ puts[j].url = task[i].uploadUrl

\* The second chunk of a file is in flight after the first one needed its retry.
C2_Witness ==
    \E i \in Videos :
        /\ Len(task[i].puts) = 3
        /\ task[i].puts[1].result = "false"
        /\ task[i].puts[2].result = "true"
        /\ task[i].puts[3].index = 1
        /\ task[i].puts[3].result = "pending"

\* C3: the promise of uploadChunk is never rejected; it is pending until the
\* request ends and then it has been resolved by exactly one call, with true
\* if the request loaded with status 308 or 200..299, with false for any
\* other status, for a network error and for a timeout.
C3_UploadChunkResolves ==
    /\ promise.state # "rejected"
    /\ xhr.state # "done" => promise.state = "pending" /\ promise.calls = 0
    /\ xhr.state = "done" =>
          /\ promise.state = "fulfilled"
          /\ promise.calls = 1
          /\ promise.value =
                (/\ xhr.event.type = "load"
                 /\ \/ xhr.event.status = 308
                    \/ xhr.event.status \in 200..299)

\* A chunk request answered with 308 has resolved the promise with true.
C3_Witness ==
    /\ xhr.state = "done"
    /\ xhr.event = [type |-> "load", status |-> 308]
    /\ promise.value = TRUE

\* The message of the error resumableUpload throws for chunk k (counted from 0)
\* of n.
ClaimedChunkFailure(k, n) ==
    <<"Failed", "to", "upload", "chunk", ToString(k + 1), "/", ToString(n),
      "after", "retry">>

\* C4: a chunk is attempted at most twice; a second attempt follows a first one
\* that resolved false and has the same URL, range and bytes.  When the retry
\* resolved false too the task has caught 'Failed to upload chunk k+1/N after
\* retry', that retry is the last request of the file, and the file's progress
\* is the one set before the chunk: 10, or the value of the chunk before.
C4_RetryOnce ==
    \A i \in Videos :
        LET puts == task[i].puts
            n    == Len(puts)
            S    == files[i].size
        IN  /\ \A k \in 0..MaxChunks :
                  Cardinality({j \in DOMAIN puts : puts[j].index = k}) <= 2
            /\ \A j \in 2..n :
                  puts[j].index = puts[j - 1].index =>
                      /\ puts[j - 1].result = "false"
                      /\ puts[j].range = puts[j - 1].range
                      /\ puts[j].url = puts[j - 1].url
                      /\ puts[j].bytes = puts[j - 1].bytes
            /\ \A j \in 1..(n - 1) :
                  puts[j].result = "false" => puts[j + 1].index = puts[j].index
            /\ (n >= 2 /\ puts[n].result = "false"
                       /\ puts[n - 1].index = puts[n].index) =>
                  /\ task[i].pc = "done"
                  /\ task[i].thrown.hasMessage
                  /\ task[i].thrown.message =
                        ClaimedChunkFailure(puts[n].index, CeilChunks(S))
                  /\ \A j \in DOMAIN puts : puts[j].index <= puts[n].index
                  /\ Len(task[i].writes) = 3 + puts[n].index
                  /\ uploadProgress[FileIdOf(i)] =
                        task[i].writes[Len(task[i].writes)]

\* The second chunk of a file failed twice after the first one was uploaded.
C4_Witness ==
    \E i \in Videos :
        /\ Len(task[i].puts) = 3
        /\ task[i].puts[1].result = "true"
        /\ task[i].puts[2].result = "false"
        /\ task[i].puts[3].result = "false"
        /\ task[i].puts[3].index = 1

\* w is in ascending order.
NonDecreasing(w) == \A j \in 1..(Len(w) - 1) : w[j] <= w[j + 1]

\* v = 10 + round(85 * end / S), halves rounded up.
IsChunkProgress(v, end, S) ==
    /\ 2 * S * (v - 10) <= 170 * end + S
    /\ 170 * end + S < 2 * S * (v - 9)

\* What C5 says of the values written by video task i, of which the values
\* written before a reset are steps.
VideoProgress(i, steps) ==
    LET S  == files[i].size
        ok == Succeeded(i)
        id == FileIdOf(i)
    IN  /\ steps[1] = 0
        /\ Len(steps) >= 2 => steps[2] = 5
        /\ Len(steps) >= 3 =>
              /\ steps[3] = 10
              /\ Len(steps) =
                    3 + Len(ok) + (IF task[i].outcome = "uploaded" THEN 1 ELSE 0)
              /\ \A k \in DOMAIN ok :
                    /\ IsChunkProgress(steps[3 + k], ok[k].range.last + 1, S)
                    /\ steps[3 + k] \in 10..95
                    /\ ok[k].range.last = S - 1 => steps[3 + k] = 95
              /\ task[i].outcome = "uploaded" => steps[Len(steps)] = 100
        /\ Len(steps) < 3 => task[i].puts = <<>>
        /\ task[i].pc \in {"put", "retry"} => uploadProgress[id] \in 10..95
        /\ uploadProgress[id] = 100 =>
              /\ task[i].outcome = "uploaded"
              /\ \A k \in 0..(CeilChunks(S) - 1) :
                    \E j \in DOMAIN ok : ok[j].index = k

\* C5 as it is claimed: the values a video task sets its progress to never
\* decrease, and run through 0, 5, 10, 10 + round(85 * end / S) for each
\* uploaded chunk, and 100.
C5_Claimed ==
    \A i \in Videos :
        /\ NonDecreasing(task[i].writes)
        /\ VideoProgress(i, task[i].writes)

\* C5, amended: the same, except that a task whose error is shown writes a
\* last 0; it does so only before its first chunk is sent, from 0 or from 5.
C5_ProgressMonotone ==
    \A i \in Videos :
        LET w     == task[i].writes
            shown == task[i].outcome = "shown"
            steps == IF shown THEN SubSeq(w, 1, Len(w) - 1) ELSE w
        IN  /\ NonDecreasing(steps)
            /\ VideoProgress(i, steps)
            /\ shown => w[Len(w)] = 0 /\ Len(steps) \in 1..2
            /\ uploadProgress[FileIdOf(i)] = w[Len(w)]

\* A video of two whole chunks is uploaded: 0, 5, 10, 53 (from 42.5), 95, 100.
C5_Witness ==
    \E i \in Videos :
        /\ files[i].size = 524288
        /\ task[i].writes = <<0, 5, 10, 53, 95, 100>>
        /\ uploadProgress[FileIdOf(i)] = 100

\* The entry of a key in uploadProgress, -1 when there is none.
Entry(progress, key) == IF key \in DOMAIN progress THEN progress[key] ELSE -1

\* C6: the files of a selection have distinct keys `${name}-${index}`, and a
\* step leaves the entry of every file whose task does not take it as it was.
C6_ProgressPerFile ==
    /\ [](\A i, j \in DOMAIN files :
            /\ FileIdOf(i) = files[i].name \o <<"-", ToString(i - 1)>>
            /\ i # j => FileIdOf(i) # FileIdOf(j))
    /\ [][\A j \in DOMAIN files :
            (/\ files' = files
             /\ j \in DOMAIN task'
             /\ j \in DOMAIN task
             /\ task'[j] = task[j])
                => Entry(uploadProgress', FileIdOf(j))
                       = Entry(uploadProgress, FileIdOf(j))]_vars

\* Two files of one name are uploading: the first was reset to 0 by the
\* failure of its request while the second stands at the value of a chunk.
C6_Witness ==
    /\ Len(task) = 2
    /\ files[1].name = files[2].name
    /\ task[1].outcome = "shown"
    /\ uploadProgress[FileIdOf(1)] = 0
    /\ task[2].pc = "put"
    /\ uploadProgress[FileIdOf(2)] = 53

\* Some continuation of task j.
TaskStep(j) ==
    \/ CompressResolved(j)
    \/ CompressRejected(j)
    \/ PhotoUploaded(j)
    \/ PhotoFailed(j)
    \/ \E uploadUrl \in UploadUrls : UrlReceived(j, uploadUrl)
    \/ UrlFailed(j)
    \/ \E success \in BOOLEAN : ChunkResolved(j, success)

\* Task i has ended by catching an error.
HasFailed(i) == i \in DOMAIN task /\ task[i].outcome \in {"shown", "hidden"}

\* C7: a task that fails fulfils its promise all the same, so Promise.all is
\* never rejected; the step in which a task fails changes no other task; and
\* whatever has failed, a task that waits for a request or a compression can
\* go on as soon as the forEach has ended.
C7_TasksIndependent ==
    /\ [](/\ allUploads # "rejected"
          /\ \A i \in DOMAIN task :
                /\ task[i].settled # "rejected"
                /\ task[i].pc = "done" <=> task[i].settled = "fulfilled"
                /\ (task[i].pc # "done" /\ hpc # "forEach") => ENABLED TaskStep(i))
    /\ [][\A i \in DOMAIN task' :
            (HasFailed(i)' /\ ~HasFailed(i)) =>
                \A j \in DOMAIN task : j # i => task'[j] = task[j]]_vars

\* The wait ended after the first file, a video over the limit, failed in the
\* forEach and the second, a video, was then uploaded in chunks.
C7_Witness ==
    /\ hpc = "idle"
    /\ allUploads = "completed"
    /\ Len(task) = 2
    /\ task[1].outcome = "shown"
    /\ task[1].thrown = VideoTooLarge
    /\ task[2].outcome = "uploaded"
    /\ Len(task[2].puts) >= 2

\* The tasks of the selection that have not ended.
Running == { i \in DOMAIN task : task[i].pc # "done" }

\* C8: uploadingFiles holds the ids of the tasks that have started and not
\* ended, each once; and when every request and compression ends, a running
\* handleUnifiedUpload leads to its wait completed, every task of the
\* selection ended and uploadingFiles empty.
C8_UploadingFilesDrain ==
    /\ [](/\ \A a, b \in DOMAIN uploadingFiles :
                a # b => uploadingFiles[a] # uploadingFiles[b]
          /\ Len(uploadingFiles) = Cardinality(Running)
          /\ \A i \in DOMAIN task :
                i \in Running <=>
                    \E a \in DOMAIN uploadingFiles : uploadingFiles[a] = FileIdOf(i))
    /\ (hpc # "idle") ~>
          (/\ hpc = "idle"
           /\ allUploads = "completed"
           /\ uploadingFiles = <<>>
           /\ DOMAIN task = DOMAIN files
           /\ Running = {})

\* A selection of two files is over: one failed, one was uploaded, and
\* uploadingFiles is empty again.
C8_Witness ==
    /\ hpc = "idle"
    /\ allUploads = "completed"
    /\ uploadingFiles = <<>>
    /\ Len(task) = 2
    /\ \E i, j \in DOMAIN task :
          /\ HasFailed(i)
          /\ task[i].requests # <<>>
          /\ task[j].outcome = "uploaded"

\* The retry of the newest chunk of task i has failed.
RetryFailed(i) ==
    LET puts == task[i].puts
        n    == Len(puts)
    IN  /\ n >= 2
        /\ puts[n].result = "false"
        /\ puts[n - 1].index = puts[n].index

\* C9: the step in which a task catches an error sets error to 'Failed to
\* upload <name>: <message>' and the file's progress to 0, unless the message
\* holds 'CORS', 'Access-Control-Allow-Origin', 'Chunk' or 'chunk', and then it
\* changes neither error nor uploadProgress.  A video whose retry has failed
\* has its error hidden and its progress where the upload left it: at 10, or
\* at the value of the last chunk that succeeded; that error is never shown.
C9_ErrorsShownOrHidden ==
    /\ [][\A i \in DOMAIN task' :
            (HasFailed(i)' /\ ~HasFailed(i)) =>
                LET e == task'[i].thrown
                    quiet ==
                        /\ e.hasMessage
                        /\ \E needle \in {"CORS", "Access-Control-Allow-Origin",
                                          "Chunk", "chunk"} :
                              \E k \in DOMAIN e.message : e.message[k] = needle
                IN  IF quiet
                    THEN /\ error' = error
                         /\ uploadProgress' = uploadProgress
                         /\ task'[i].outcome = "hidden"
                    ELSE /\ error' =
                               <<"Failed", "to", "upload">> \o files'[i].name
                                   \o <<":">>
                                   \o (IF e.hasMessage THEN e.message
                                       ELSE <<"undefined">>)
                         /\ Entry(uploadProgress', FileIdOf(i)') = 0
                         /\ task'[i].outcome = "shown"]_vars
    /\ [](\A i \in Videos :
            RetryFailed(i) =>
                LET ok == Succeeded(i)
                IN  /\ task[i].outcome = "hidden"
                    /\ ok = <<>> => uploadProgress[FileIdOf(i)] = 10
                    /\ ok # <<>> =>
                          IsChunkProgress(uploadProgress[FileIdOf(i)],
                                          ok[Len(ok)].range.last + 1,
                                          files[i].size))
    /\ [](~Includes(error, <<"after", "retry">>))

\* The retry of the second chunk of a video of two whole chunks has failed:
\* nothing is shown and the progress stays at the 53 of the first chunk.
C9_Witness ==
    \E i \in Videos :
        /\ RetryFailed(i)
        /\ files[i].size = 524288
        /\ Succeeded(i) # <<>>
        /\ error = NoError
        /\ uploadProgress[FileIdOf(i)] = 53

\* C10: a task that has sent a chunk request is the task of a video of at most
\* 500*1024*1024 bytes that has asked for an upload URL once and got one, and
\* all its chunk requests are PUTs to that URL.  A video over the limit has
\* failed with 'Video file must be less than 500MB' without any request.  A
\* video whose upload-URL request failed has sent no chunk and has failed with
\* the error of the response, with 'Failed to get upload URL', or with the
\* error of fetch.
C10_NoPutWithoutUrl ==
    \A i \in DOMAIN task :
        LET t == task[i]
        IN  /\ t.puts # <<>> =>
                  /\ files[i].type[1] = "video"
                  /\ files[i].size <= 524288000
                  /\ t.requests = <<VideoUrlPath>>
                  /\ t.uploadUrl \in UploadUrls
                  /\ \A j \in DOMAIN t.puts :
                        t.puts[j].method = "PUT" /\ t.puts[j].url = t.uploadUrl
            /\ (files[i].type[1] = "video" /\ files[i].size > 524288000) =>
                  /\ t.requests = <<>>
                  /\ t.puts = <<>>
                  /\ t.pc = "done"
                  /\ t.thrown =
                        Err(<<"Video", "file", "must", "be", "less", "than", "500MB">>)
            /\ (t.requests = <<VideoUrlPath>> /\ t.uploadUrl = NoUrl
                    /\ t.pc = "done") =>
                  /\ t.puts = <<>>
                  /\ t.thrown.hasMessage
                  /\ t.thrown.message \in
                        ServerErrors \cup {<<"Failed", "to", "get", "upload", "URL">>,
                                           <<"Failed", "to", "fetch">>}

\* Of two selected videos the one over the limit was refused without a request
\* and the other one has a chunk in flight.
C10_Witness ==
    \E i, j \in DOMAIN task :
        /\ files[i].size > 524288000
        /\ task[i].pc = "done"
        /\ task[i].requests = <<>>
        /\ task[j].puts # <<>>
        /\ task[j].pc = "put"


\* The video-url route has returned its response.
UrlAnswered == urlRoute.pc = "done"

\* The parsed body has no filename or no mimeType (null has neither).
FieldMissing == urlRoute.body.kind # "unparsable" /\ MissingFields(urlRoute.body)

\* Status 400 and no request made by the route.
Refused400 == urlRoute.response.status = 400 /\ urlRoute.outgoing = <<>>

\* Status 500 with an error field.
Failed500 == urlRoute.response.status = 500 /\ urlRoute.response.error # <<>>

\* The drive API answered, and not with an ok status.
DriveNotOk ==
    urlRoute.drive.status # 0
        /\ ~(urlRoute.drive.status >= 200 /\ urlRoute.drive.status < 300)

\* The drive API answered ok.
DriveOk == urlRoute.drive.status >= 200 /\ urlRoute.drive.status < 300

\* The parts of C11 after the 400 cases: the 500 cases, uploadUrl only after
\* an ok answer with a Location header, X-Upload-Content-Length only for a
\* fileSize that is given and not zero, and no request for a refused body.
C11_Rest ==
    /\ \A k \in DOMAIN urlRoute.outgoing :
          /\ urlRoute.body.kind = "object" /\ ~MissingFields(urlRoute.body)
          /\ ~MissingEnv(urlRoute.env)
          /\ "X-Upload-Content-Length" \in urlRoute.outgoing[k].headers =>
                urlRoute.body.hasFileSize /\ urlRoute.body.fileSize # 0
    /\ UrlAnswered =>
          /\ (/\ urlRoute.body.kind = "object"
              /\ ~MissingFields(urlRoute.body)
              /\ \/ MissingEnv(urlRoute.env)
                 \/ urlRoute.token = "missing"
                 \/ DriveNotOk
                 \/ DriveOk /\ ~urlRoute.drive.location) => Failed500
          /\ urlRoute.caught => Failed500
          /\ urlRoute.response.uploadUrl # NoUrl =>
                /\ DriveOk /\ urlRoute.drive.location
                /\ urlRoute.response.status = 200
                /\ urlRoute.response.error = <<>>
          /\ urlRoute.response.status \in {200, 400, 500}

\* C11: the video-url route POST validates before it contacts the cloud API.
\* Once it has answered: an unparsable body, or a body without filename or
\* without mimeType, got status 400 and the route made no request; missing
\* credentials or folder id, a missing access token, an answer of the cloud
\* API that is not ok, a missing Location header and a thrown exception got
\* status 500 with an error; uploadUrl is answered only after an ok answer
\* with a Location header; and X-Upload-Content-Length is sent only for a
\* fileSize that is given and not zero.
C11_Claimed ==
    /\ (UrlAnswered /\ (urlRoute.body.kind = "unparsable" \/ FieldMissing)) =>
          Refused400
    /\ C11_Rest

\* C11 for every body but null: what C11 says holds of the route for an
\* unparsable body and for every object, while the body null, which has no
\* filename, is answered from the outer catch block with status 500.
C11_ExceptNull ==
    /\ (UrlAnswered /\ urlRoute.body.kind # "null"
            /\ (urlRoute.body.kind = "unparsable" \/ FieldMissing)) => Refused400
    /\ (UrlAnswered /\ urlRoute.body.kind = "null") =>
          urlRoute.caught /\ urlRoute.outgoing = <<>>
    /\ C11_Rest

\* The body null has been answered with status 500 and a server error.
C11_NullBody ==
    /\ UrlAnswered
    /\ urlRoute.body.kind = "null"
    /\ urlRoute.response.status = 500
    /\ urlRoute.response.error = <<"Server", "error", ":">> \o DestructureError.message

\* A session was opened for a body with a fileSize: uploadUrl is answered and
\* the session request carried X-Upload-Content-Length.
C11_Opened ==
    /\ UrlAnswered
    /\ urlRoute.response.uploadUrl # NoUrl
    /\ \E k \in DOMAIN urlRoute.outgoing :
          "X-Upload-Content-Length" \in urlRoute.outgoing[k].headers


\* The video route has returned its response.
VideoAnswered == videoRoute.pc = "done"

\* The temporary file exists.
TempFileExists == videoRoute.tempFile # <<>>

\* C12: the video upload route cleans up the temporary file it writes. On
\* every path on which the handler has written the temporary file, the file
\* no longer exists when the handler has returned its response, whether the
\* upload to the drive succeeded or threw.
C12_Claimed == (VideoAnswered /\ videoRoute.written) => ~TempFileExists

\* C12 as the route has it: the temporary file is gone after the upload
\* succeeded and unlinkSync did not throw; on every path through the outer
\* catch block after writeFileSync, and when unlinkSync throws, the file is
\* still there when the response is returned.
C12_OnlyOnSuccess ==
    (VideoAnswered /\ videoRoute.written) =>
        /\ ~TempFileExists <=> (videoRoute.response.status = 200
                                    /\ videoRoute.unlink = "done")
        /\ videoRoute.caught => TempFileExists
        /\ TempFileExists => videoRoute.tempFile = tempFilePath(videoRoute.form.file)

\* drive.files.create rejected after the temporary file was written: the
\* error response has been returned and the file is still there.
C12_Leaked ==
    /\ VideoAnswered
    /\ videoRoute.written
    /\ videoRoute.caught
    /\ videoRoute.response.status = 403
    /\ TempFileExists

=============================================================================
